---- MODULE Spec2Model ----
(***************************************************************************)
(* A model of OdysseyMaker_app.py: the strict-schema adapter, the          *)
(* generation client, the two-stage outline pipeline, the demo generator   *)
(* and the Streamlit session around them.                                  *)
(***************************************************************************)
EXTENDS Integers, Sequences, FiniteSets, TLC

VARIABLES
    \* ---- strict-schema adapter (enforce_openai_strict_schema) ----
    heap,        \* the object trees that exist, one per root object
    schema,      \* the reference passed to enforce_openai_strict_schema
    adapted,     \* the reference it returned (0 before the call)
    adapted2,    \* the reference returned when the result is adapted again
    spc,         \* "start", "adapted", "twice" ("off" in the other specifications)
    \* ---- generation client (generate_json_schema) ----
    reply,       \* what client.responses.create does: a response or a raise
    extracted,   \* what _extract_output_text did, None when it was not reached
    gen_out,     \* what generate_json_schema did: a returned value or a raise
    epc,         \* "call", "done" ("off" in the other specifications)
    \* ---- the Streamlit session ----
    api_key,               \* an OPENAI_API_KEY is configured
    demo_mode,             \* the "Demo mode (no API calls)" checkbox
    outline_result,        \* st.session_state["outline_result"]
    last_outline_request,  \* st.session_state["last_outline_request"]
    scene_guides,          \* st.session_state["scene_guides"]: scene_id -> guide
    last_error,            \* st.session_state["last_error"]
    pc,          \* "idle", or the call the running script waits in:
                 \* "stage1", "stage2", "scene" ("off" in the other specifications)
    req,         \* the OutlineRequest of the running script
    outline,     \* the validated stage-1 outline of the running script
    scene,       \* the scene the running script expands
    calls,       \* the calls of the endpoint the running script has made
    raised,      \* the exception the script's except clause caught
    shown        \* what the script run reported

schemaVars == <<heap, schema, adapted, adapted2, spc>>
clientVars == <<reply, extracted, gen_out, epc>>
sessionVars == <<outline_result, last_outline_request, scene_guides, last_error>>
runVars == <<pc, req, outline, scene, calls, raised, shown>>
appVars == <<api_key, demo_mode, outline_result, last_outline_request, scene_guides,
             last_error, pc, req, outline, scene, calls, raised, shown>>
vars == <<heap, schema, adapted, adapted2, spc, reply, extracted, gen_out, epc,
          api_key, demo_mode, outline_result, last_outline_request, scene_guides,
          last_error, pc, req, outline, scene, calls, raised, shown>>

(***************************************************************************)
(* Bounds of the model.                                                    *)
(***************************************************************************)
MaxDepth == 2        \* nesting depth of the generated schemas
MaxItems == 2        \* output items of a response
MaxBlocks == 2       \* content blocks of an output item
MaxScenes == 2       \* the scenes of a result whose buttons are pressed

(***************************************************************************)
(* JSON values: a scalar, a mapping or a list.                             *)
(***************************************************************************)
None == [t |-> "none"]
Str(s) == [t |-> "str", v |-> s]
Bool(b) == [t |-> "bool", b |-> b]
Map(m) == [t |-> "map", m |-> m]
List(l) == [t |-> "list", l |-> l]

\* Every key the schemas of the model use, in the order Python's sorted()
\* gives strings (by code point).
KeyOrder ==
    <<"$defs", "additionalProperties", "anyOf", "beats", "hooks", "items",
      "properties", "required", "title", "type">>

sorted(S) == SelectSeq(KeyOrder, LAMBDA k : k \in S)

\* dict.get(key, default)
get(m, key, default) == IF key \in DOMAIN m THEN m[key] ELSE default

\* m[key] = value on a dict
setitem(m, key, value) ==
    [k \in DOMAIN m \cup {key} |-> IF k = key THEN value ELSE m[k]]

(***************************************************************************)
(* enforce_openai_strict_schema                                            *)
(*                                                                         *)
(* heap holds the object trees the program has built, one per root object; *)
(* a reference is the index of a root.  Every dict and list belongs to the *)
(* tree of one root, so a function that mutates the objects under a root   *)
(* replaces that root's tree, and two references share objects exactly     *)
(* when they name the same root.                                           *)
(***************************************************************************)
\* Variants of the patch of one dict node, each a slip the code could make.
\* setdefault instead of assignment: entries the node already has are kept.
walk_patch_setdefault(node) ==
    IF get(node, "type", None) = Str("object")
    THEN LET props == get(node, "properties", Map(<<>>)) IN
         IF props.t = "map" /\ DOMAIN props.m # {}
         THEN LET ks == sorted(DOMAIN props.m)
                  n1 == IF "additionalProperties" \in DOMAIN node THEN node
                        ELSE setitem(node, "additionalProperties", Bool(FALSE))
              IN  IF "required" \in DOMAIN node THEN n1
                  ELSE setitem(n1, "required", List([i \in 1..Len(ks) |-> Str(ks[i])]))
         ELSE node
    ELSE node

\* the property names are appended to the list the node already has
walk_patch_extend(node) ==
    IF get(node, "type", None) = Str("object")
    THEN LET props == get(node, "properties", Map(<<>>)) IN
         IF props.t = "map" /\ DOMAIN props.m # {}
         THEN LET ks == sorted(DOMAIN props.m)
                  old == get(node, "required", None)
                  had == IF old.t = "list" THEN old.l ELSE <<>>
              IN  setitem(setitem(node, "additionalProperties", Bool(FALSE)),
                          "required", List(had \o [i \in 1..Len(ks) |-> Str(ks[i])]))
         ELSE node
    ELSE node

\* the test "and props" is missing: a node whose properties dict is empty
\* or absent is patched too
walk_patch_empty(node) ==
    IF get(node, "type", None) = Str("object")
    THEN LET props == get(node, "properties", Map(<<>>)) IN
         IF props.t = "map"
         THEN LET ks == sorted(DOMAIN props.m)
              IN  setitem(setitem(node, "additionalProperties", Bool(FALSE)),
                          "required", List([i \in 1..Len(ks) |-> Str(ks[i])]))
         ELSE node
    ELSE node

\* Lines 180-184: what walk does to a dict once its values are walked.
walk_patch(node) ==
    IF get(node, "type", None) = Str("object")
    THEN LET props == get(node, "properties", Map(<<>>)) IN
         IF props.t = "map" /\ DOMAIN props.m # {}
         THEN LET ks == sorted(DOMAIN props.m)
              IN  setitem(setitem(node, "additionalProperties", Bool(FALSE)),
                          "required", List([i \in 1..Len(ks) |-> Str(ks[i])]))
         ELSE node
    ELSE node

\* walk(node) mutates the tree under node in place; this is the tree after.
RECURSIVE walk(_)
walk(node) ==
    IF node.t = "map"
    THEN Map(walk_patch([k \in DOMAIN node.m |-> walk(node.m[k])]))
    ELSE IF node.t = "list"
    THEN List([i \in 1..Len(node.l) |-> walk(node.l[i])])
    ELSE node

\* json.loads(json.dumps(schema)): a new root whose tree equals the tree of
\* schema (the keys of a schema are strings, its lists are lists).
json_roundtrip(h, s) == [h |-> Append(h, h[s]), r |-> Len(h) + 1]

\* schema_copy = schema: the walk runs on the caller's own objects
enforce_no_copy(h, s) == [h |-> [h EXCEPT ![s] = walk(h[s])], r |-> s]

\* enforce_openai_strict_schema(schema): the heap after the call and the
\* reference returned.
enforce_openai_strict_schema(h, s) ==
    LET schema_copy == json_roundtrip(h, s)
    IN  [h |-> [schema_copy.h EXCEPT ![schema_copy.r] = walk(schema_copy.h[schema_copy.r])],
         r |-> schema_copy.r]

(***************************************************************************)
(* The schemas the adapter is run on: mappings shaped like the output of   *)
(* model_json_schema(), nested to MaxDepth.                                *)
(***************************************************************************)
StringSchema == Map("type" :> Str("string"))

Leaves ==
    { StringSchema,
      Map("type" :> Str("object")),
      Map(("type" :> Str("object")) @@ ("properties" :> Map(<<>>))
          @@ ("required" :> List(<<Str("title")>>))
          @@ ("additionalProperties" :> Bool(TRUE))) }

\* What an object schema may carry besides type and properties.
Extras ==
    { <<>>,
      ("required" :> List(<<Str("title")>>)),
      ("required" :> List(<<Str("title"), Str("beats")>>))
          @@ ("additionalProperties" :> Bool(TRUE)),
      ("additionalProperties" :>
          Map(("type" :> Str("object"))
              @@ ("properties" :> Map("hooks" :> StringSchema)))) }

ObjectSchema(props, extra) ==
    Map(("type" :> Str("object")) @@ ("properties" :> Map(props)) @@ extra)

RECURSIVE Schemas(_)
Schemas(d) ==
    IF d = 0 THEN Leaves
    ELSE LET S == Schemas(d - 1) IN
         S
         \cup { ObjectSchema("title" :> x, e) : x \in S, e \in Extras }
         \cup { ObjectSchema(("title" :> x) @@ ("beats" :> y), e) :
                    x \in S, y \in Leaves, e \in Extras }
         \cup { Map(("type" :> Str("array")) @@ ("items" :> x)) : x \in S }
         \cup { Map("anyOf" :> List(<<x, Map("type" :> Str("null"))>>)) : x \in S }
         \cup { Map(("$defs" :> Map("beats" :> x)) @@ ("type" :> Str("object"))
                    @@ ("properties" :> Map("hooks" :> StringSchema))) : x \in S }
         \cup { Map(("type" :> Str("string")) @@ ("properties" :> Map("title" :> x))) :
                    x \in S }

(***************************************************************************)
(* The adapter run once on a schema and once more on its own result.       *)
(***************************************************************************)
SchemaIdle ==
    /\ heap = <<>>
    /\ schema = 0
    /\ adapted = 0
    /\ adapted2 = 0
    /\ spc = "off"

ClientIdle ==
    /\ reply = None
    /\ extracted = None
    /\ gen_out = None
    /\ epc = "off"

AppIdle ==
    /\ api_key = FALSE
    /\ demo_mode = FALSE
    /\ outline_result = None
    /\ last_outline_request = None
    /\ scene_guides = <<>>
    /\ last_error = None
    /\ pc = "off"
    /\ req = None
    /\ outline = None
    /\ scene = None
    /\ calls = <<>>
    /\ raised = None
    /\ shown = "nothing"

InitSchema ==
    /\ ClientIdle
    /\ AppIdle
    /\ \E v \in Schemas(MaxDepth) :
           /\ heap = <<v>>
           /\ schema = 1
    /\ adapted = 0
    /\ adapted2 = 0
    /\ spc = "start"

\* adapted = enforce_openai_strict_schema(schema)
Enforce ==
    /\ spc = "start"
    /\ LET out == enforce_openai_strict_schema(heap, schema) IN
       /\ heap' = out.h
       /\ adapted' = out.r
    /\ spc' = "adapted"
    /\ UNCHANGED <<schema, adapted2>>
    /\ UNCHANGED clientVars
    /\ UNCHANGED appVars

\* adapted2 = enforce_openai_strict_schema(adapted)
EnforceAgain ==
    /\ spc = "adapted"
    /\ LET out == enforce_openai_strict_schema(heap, adapted) IN
       /\ heap' = out.h
       /\ adapted2' = out.r
    /\ spc' = "twice"
    /\ UNCHANGED <<schema, adapted>>
    /\ UNCHANGED clientVars
    /\ UNCHANGED appVars

NextSchema == Enforce \/ EnforceAgain

SpecSchema == InitSchema /\ [][NextSchema]_vars

(***************************************************************************)
(* Properties of the adapter, checked under SpecSchema.                    *)
(***************************************************************************)
\* a dict with "type" == "object" and a non-empty "properties" dict
IsObjectWithProperties(m) ==
    /\ "type" \in DOMAIN m
    /\ m["type"] = Str("object")
    /\ "properties" \in DOMAIN m
    /\ m["properties"].t = "map"
    /\ DOMAIN m["properties"].m # {}

KeyPos(k) == CHOOSE i \in 1..Len(KeyOrder) : KeyOrder[i] = k

\* x is the list of exactly the names in S, each once, in ascending order
IsSortedListOf(x, S) ==
    /\ x.t = "list"
    /\ Len(x.l) = Cardinality(S)
    /\ \A i \in 1..Len(x.l) : x.l[i].t = "str" /\ x.l[i].v \in S
    /\ \A i, j \in 1..Len(x.l) : i < j => KeyPos(x.l[i].v) < KeyPos(x.l[j].v)

RECURSIVE AllStrict(_)
AllStrict(v) ==
    IF v.t = "map" THEN
        /\ IsObjectWithProperties(v.m) =>
              /\ "additionalProperties" \in DOMAIN v.m
              /\ v.m["additionalProperties"] = Bool(FALSE)
              /\ "required" \in DOMAIN v.m
              /\ IsSortedListOf(v.m["required"], DOMAIN v.m["properties"].m)
        /\ \A k \in DOMAIN v.m : AllStrict(v.m[k])
    ELSE IF v.t = "list" THEN \A i \in 1..Len(v.l) : AllStrict(v.l[i])
    ELSE TRUE

\* C6: in the schema enforce_openai_strict_schema returns, every mapping at
\* any depth whose type is "object" and whose properties is a non-empty
\* mapping has additionalProperties false and required equal to the sorted
\* list of exactly its property names, whatever the input node carried.
StrictSchemaPostcondition ==
    /\ spc # "start" => AllStrict(heap[adapted])
    /\ spc = "twice" => AllStrict(heap[adapted2])

\* a run on a schema whose root listed its required names partially or in
\* another order, with an object schema nested under a property
StrictSchemaWitness ==
    /\ spc = "adapted"
    /\ IsObjectWithProperties(heap[schema].m)
    /\ "required" \in DOMAIN heap[schema].m
    /\ heap[schema].m["required"] # heap[adapted].m["required"]
    /\ \E k \in DOMAIN heap[schema].m["properties"].m :
           /\ IsObjectWithProperties(heap[schema].m["properties"].m[k].m)
           /\ ~AllStrict(heap[schema].m["properties"].m[k])

\* C7: adapting an adapted schema gives an equal schema.
AdaptIdempotent ==
    spc = "twice" => heap[adapted2] = heap[adapted]

\* both runs made, the first of which changed the schema
AdaptIdempotentWitness ==
    /\ spc = "twice"
    /\ heap[adapted] # heap[schema]
    /\ adapted2 # adapted

\* C8: a call of enforce_openai_strict_schema leaves every object of its
\* input as it was, and returns objects none of which is an object of the
\* input.
InputNotMutated ==
    [][ /\ heap'[schema] = heap[schema]
        /\ spc = "start" => adapted' # schema
        /\ spc = "adapted" => /\ heap'[adapted] = heap[adapted]
                              /\ adapted2' # adapted ]_vars

\* a call that returned a schema different from its input, the input being
\* as it was built
InputNotMutatedWitness ==
    /\ spc = "adapted"
    /\ heap[schema] \in Schemas(MaxDepth)
    /\ ~AllStrict(heap[schema])
    /\ AllStrict(heap[adapted])

RECURSIVE SameExceptPatched(_, _)
SameExceptPatched(in, out) ==
    IF in.t = "map" THEN
        /\ out.t = "map"
        /\ IF IsObjectWithProperties(in.m)
           THEN /\ DOMAIN out.m = DOMAIN in.m \cup {"additionalProperties", "required"}
                /\ \A k \in DOMAIN in.m \ {"additionalProperties", "required"} :
                       SameExceptPatched(in.m[k], out.m[k])
           ELSE /\ DOMAIN out.m = DOMAIN in.m
                /\ \A k \in DOMAIN in.m : SameExceptPatched(in.m[k], out.m[k])
    ELSE IF in.t = "list" THEN
        /\ out.t = "list"
        /\ Len(out.l) = Len(in.l)
        /\ \A i \in 1..Len(in.l) : SameExceptPatched(in.l[i], out.l[i])
    ELSE out = in

JsonText(doc) == [t |-> "json", doc |-> doc]

\* What a call does: it returns a value or raises an exception.  The
\* message of an exception is a sequence of words.
Return(v) == [ok |-> TRUE, value |-> v]
Raise(type, msg) == [ok |-> FALSE, exc |-> [type |-> type, msg |-> msg]]

\* an output item and a content block of a response
Item(type, content) == [type |-> type, content |-> content]
Block(type, text) == [type |-> type, text |-> text]
Response(output) == [t |-> "response", output |-> output]

\* "not out_text": None and the empty string are falsy
falsy(x) == x = None \/ x = Str("")

\* json.loads(text)
json_loads(text) ==
    IF text.t = "json" THEN Return(text.doc)
    ELSE Raise("JSONDecodeError", <<"Expecting", "value">>)

\* Lines 199-202: the inner loop over the content of one message item; it
\* stops at the first output_text block.
first_output_text(content, out_text) ==
    LET hits == {i \in 1..Len(content) : content[i].type = "output_text"} IN
    IF hits = {} THEN out_text
    ELSE content[CHOOSE i \in hits : \A j \in hits : i <= j].text

\* Lines 196-202: out_text when the loop over resp.output has ended.  The
\* break leaves the inner loop only, the outer loop visits every item.
out_text_after(output) ==
    LET F[i \in 0..Len(output)] ==
            IF i = 0 THEN None
            ELSE IF output[i].type = "message"
                 THEN first_output_text(output[i].content, F[i-1])
                 ELSE F[i-1]
    IN  F[Len(output)]

\* _extract_output_text(resp)
extract_output_text(resp) ==
    LET out_text == out_text_after(resp.output) IN
    IF falsy(out_text)
    THEN Raise("RuntimeError", <<"No", "output_text", "found", "in", "model", "response.">>)
    ELSE Return(out_text)

\* a failure to get a document is answered with an empty dict
generate_json_schema_lenient(r) ==
    IF ~r.ok THEN r
    ELSE LET text == out_text_after(r.value.output) IN
         IF falsy(text) \/ text.t # "json" THEN Return(Map(<<>>))
         ELSE Return(text.doc)

\* generate_json_schema(...), given what client.responses.create does
generate_json_schema(r) ==
    IF ~r.ok THEN r
    ELSE LET text == extract_output_text(r.value) IN
         IF ~text.ok THEN text ELSE json_loads(text.value)

\* ---- the replies of the endpoint ----
OutlineDocA == Map("title" :> Str("The Sunken Bell"))
OutlineDocB == Map("title" :> Str("Ash Market"))

Blocks ==
    { Block("output_text", x) :
        x \in {Str(""), Str("I cannot help with that"), JsonText(OutlineDocA)} }
    \cup { Block("refusal", JsonText(OutlineDocB)) }

SeqsUpTo(S, n) == UNION { [1..k -> S] : k \in 0..n }

Items ==
    { Item("message", c) : c \in SeqsUpTo(Blocks, MaxBlocks) }
    \cup { Item("reasoning", c) :
             c \in {<<>>, <<Block("output_text", JsonText(OutlineDocB))>>} }

ApiErrors ==
    { Raise("RateLimitError", <<"Error", "code:", "429", "insufficient_quota">>),
      Raise("APIConnectionError", <<"Connection", "error.">>) }

Replies ==
    { Return(Response(o)) : o \in SeqsUpTo(Items, MaxItems) } \cup ApiErrors

InitClient ==
    /\ SchemaIdle
    /\ AppIdle
    /\ reply \in Replies
    /\ extracted = None
    /\ gen_out = None
    /\ epc = "call"

\* one call of generate_json_schema
GenerateJson ==
    /\ epc = "call"
    /\ extracted' = IF reply.ok THEN extract_output_text(reply.value) ELSE None
    /\ gen_out' = generate_json_schema(reply)
    /\ epc' = "done"
    /\ UNCHANGED reply
    /\ UNCHANGED schemaVars
    /\ UNCHANGED appVars

NextClient == GenerateJson

SpecClient == InitClient /\ [][NextClient]_vars

(***************************************************************************)
(* Properties of the generation client, checked under SpecClient.          *)
(***************************************************************************)
MessageItems(output) == {i \in 1..Len(output) : output[i].type = "message"}

TextBlocks(content) == {j \in 1..Len(content) : content[j].type = "output_text"}

Least(S) == CHOOSE i \in S : \A j \in S : i <= j

\* the first message-typed output item of the reply has a text block, and
\* that block holds a non-empty text
FirstMessageHasText ==
    /\ reply.ok
    /\ MessageItems(reply.value.output) # {}
    /\ LET item == reply.value.output[Least(MessageItems(reply.value.output))] IN
       /\ TextBlocks(item.content) # {}
       /\ ~falsy(item.content[Least(TextBlocks(item.content))].text)

FirstMessageText ==
    LET item == reply.value.output[Least(MessageItems(reply.value.output))]
    IN  item.content[Least(TextBlocks(item.content))].text

\* C4: _extract_output_text returns the first text block of the first
\* message-typed output item, whatever items follow it.
FirstMessageFirstText ==
    (epc = "done" /\ FirstMessageHasText)
        => extracted = Return(FirstMessageText)

\* the texts that are the first text block of some message item
CandidateTexts ==
    IF ~reply.ok THEN {}
    ELSE { reply.value.output[i].content[Least(TextBlocks(reply.value.output[i].content))].text :
             i \in { k \in MessageItems(reply.value.output) :
                        TextBlocks(reply.value.output[k].content) # {} } }

\* C5: generate_json_schema returns a value only when the text it took from
\* the response is a JSON document, and then the value is that document; a
\* response without a text block, an empty text and a text that is not JSON
\* all end in an exception.
NoSilentEmptyResult ==
    epc = "done" =>
        /\ (CandidateTexts = {} => ~gen_out.ok)
        /\ ((\A x \in CandidateTexts : x.t # "json") => ~gen_out.ok)
        /\ gen_out.ok => \E x \in CandidateTexts : x.t = "json" /\ gen_out.value = x.doc

\* a response whose only text is not JSON, answered with an exception
NoSilentEmptyResultWitness ==
    /\ epc = "done"
    /\ reply.ok
    /\ CandidateTexts = {Str("I cannot help with that")}
    /\ ~gen_out.ok
    /\ gen_out.exc.type = "JSONDecodeError"

(***************************************************************************)
(* The pydantic models.  A document is a Map; a validated model instance   *)
(* is the Map of its declared fields (what model_dump() gives).            *)
(***************************************************************************)
Num(n) == [t |-> "int", n |-> n]

Required == [t |-> "required"]
Field(name, kind, default) == [name |-> name, kind |-> kind, default |-> default]

StrField(min_length) == [k |-> "str", min_length |-> min_length]
IntField(ge, le) == [k |-> "int", bounded |-> TRUE, ge |-> ge, le |-> le]
AnyIntField == [k |-> "int", bounded |-> FALSE]
EnumField(values) == [k |-> "enum", values |-> values]
BoolField == [k |-> "bool"]
ListStrField == [k |-> "list_str"]
ListOfField(model) == [k |-> "list_of", model |-> model]

Tone == {"grimdark", "heroic", "whimsical", "horror", "mystery", "epic"}
Theme == {"fey", "undead", "dragons", "political", "heist", "cosmic",
          "wilderness", "dungeon", "urban"}
EncounterType == {"combat", "social", "exploration", "puzzle", "skill_challenge"}
Difficulty == {"easy", "medium", "hard", "deadly"}
LevelingMode == {"milestone", "xp"}
Ruleset == {"5e", "system_agnostic"}

EmptyList == List(<<>>)

\* the declared fields of each model, in declaration order
ModelFields(model) ==
    CASE model = "OutlineRequest" ->
           << Field("concept", StrField(10), Required),
              Field("party_level_start", IntField(1, 20), Num(3)),
              Field("party_level_end", IntField(1, 20), Num(5)),
              Field("ruleset", EnumField(Ruleset), Str("5e")),
              Field("leveling_mode", EnumField(LevelingMode), Str("milestone")),
              Field("tone", EnumField(Tone), Str("mystery")),
              Field("theme", EnumField(Theme), Str("dungeon")),
              Field("session_count_target", IntField(1, 20), Num(3)),
              Field("constraints", ListStrField, EmptyList),
              Field("include_travel", BoolField, Bool(TRUE)) >>
      [] model = "KeyNPC" ->
           << Field("name", StrField(0), Required),
              Field("role", StrField(0), Required),
              Field("public_face", StrField(0), Required),
              Field("secret", StrField(0), Required),
              Field("leverage", StrField(0), Required) >>
      [] model = "Faction" ->
           << Field("name", StrField(0), Required),
              Field("goal", StrField(0), Required),
              Field("method", StrField(0), Required),
              Field("complication", StrField(0), Required) >>
      [] model = "StoryBeat" ->
           << Field("beat_id", StrField(0), Required),
              Field("title", StrField(0), Required),
              Field("purpose", StrField(0), Required),
              Field("stakes", StrField(0), Required),
              Field("twist_or_reveal", StrField(0), Required) >>
      [] model = "AdventureOutline" ->
           << Field("title", StrField(0), Required),
              Field("logline", StrField(0), Required),
              Field("central_conflict", StrField(0), Required),
              Field("villain_or_antagonist", StrField(0), Required),
              Field("themes", ListStrField, Required),
              Field("hooks", ListStrField, Required),
              Field("key_npcs", ListOfField("KeyNPC"), Required),
              Field("factions", ListOfField("Faction"), Required),
              Field("beats", ListOfField("StoryBeat"), Required),
              Field("continuity_promises", ListStrField, EmptyList) >>
      [] model = "Encounter" ->
           << Field("encounter_id", StrField(0), Required),
              Field("type", EnumField(EncounterType), Required),
              Field("difficulty", EnumField(Difficulty), Required),
              Field("summary", StrField(0), Required),
              Field("win_condition", StrField(0), Required),
              Field("fail_forward", StrField(0), Required),
              Field("setup", ListStrField, EmptyList),
              Field("scaling_notes", ListStrField, EmptyList) >>
      [] model = "Scene" ->
           << Field("scene_id", StrField(0), Required),
              Field("title", StrField(0), Required),
              Field("location", StrField(0), Required),
              Field("goal", StrField(0), Required),
              Field("boxed_text", StrField(0), Required),
              Field("obstacles", ListStrField, Required),
              Field("encounters", ListOfField("Encounter"), Required),
              Field("clues_and_info", ListStrField, Required),
              Field("rewards", ListStrField, Required),
              Field("consequences", ListStrField, Required),
              Field("links_to_beats", ListStrField, EmptyList),
              Field("estimated_minutes", IntField(5, 240), Num(45)) >>
      [] model = "LevelProgressionStep" ->
           << Field("step_id", StrField(0), Required),
              Field("after_scene_id", StrField(0), Required),
              Field("level", AnyIntField, Required),
              Field("rationale", StrField(0), Required),
              Field("optional_side_objectives", ListStrField, EmptyList) >>
      [] model = "DetailedAdventureOutline" ->
           << Field("outline_title", StrField(0), Required),
              Field("structure_notes", ListStrField, Required),
              Field("scenes", ListOfField("Scene"), Required),
              Field("level_progression", ListOfField("LevelProgressionStep"), Required),
              Field("optional_side_quests", ListStrField, EmptyList),
              Field("recap_questions", ListStrField, EmptyList) >>
      [] model = "LocationStep" ->
           << Field("step_id", StrField(0), Required),
              Field("location_name", StrField(0), Required),
              Field("player_read_aloud", StrField(0), Required),
              Field("dm_background", StrField(0), Required),
              Field("sensory_details", ListStrField, EmptyList),
              Field("interactive_elements", ListStrField, EmptyList),
              Field("hidden_info", ListStrField, EmptyList),
              Field("checks_and_dc", ListStrField, EmptyList),
              Field("branching_choices", ListStrField, EmptyList),
              Field("fail_forward", StrField(0), Required),
              Field("time_pressure", StrField(0), Str("")) >>
      [] model = "ExpandedSceneGuide" ->
           << Field("scene_id", StrField(0), Required),
              Field("scene_title", StrField(0), Required),
              Field("dm_scene_intent", StrField(0), Required),
              Field("scene_summary_for_dm", StrField(0), Required),
              Field("cast_in_scene", ListStrField, Required),
              Field("step_by_step_locations", ListOfField("LocationStep"), Required),
              Field("encounter_integration_notes", ListStrField, EmptyList),
              Field("loot_and_rewards_detail", ListStrField, EmptyList),
              Field("continuity_checks", ListStrField, EmptyList),
              Field("optional_complications", ListStrField, EmptyList) >>

RECURSIVE field_valid(_, _), valid(_, _), normalized(_, _)

\* the value v is accepted for a field of this kind
field_valid(kind, v) ==
    CASE kind.k = "str" -> v.t = "str" /\ Len(v.v) >= kind.min_length
      [] kind.k = "int" -> v.t = "int" /\ (kind.bounded => (v.n >= kind.ge /\ v.n <= kind.le))
      [] kind.k = "enum" -> v.t = "str" /\ v.v \in kind.values
      [] kind.k = "bool" -> v.t = "bool"
      [] kind.k = "list_str" -> v.t = "list" /\ \A i \in 1..Len(v.l) : v.l[i].t = "str"
      [] kind.k = "list_of" ->
             v.t = "list" /\ \A i \in 1..Len(v.l) : valid(kind.model, v.l[i])

\* data is accepted as the given model
valid(model, data) ==
    /\ data.t = "map"
    /\ \A i \in 1..Len(ModelFields(model)) :
          LET f == ModelFields(model)[i] IN
          IF f.name \in DOMAIN data.m
          THEN field_valid(f.kind, data.m[f.name])
          ELSE f.default # Required

\* the instance built from accepted data: the declared fields, defaults
\* filled in, undeclared keys dropped
normalized(model, data) ==
    LET fs == ModelFields(model) IN
    Map([name \in {fs[i].name : i \in 1..Len(fs)} |->
           LET f == fs[CHOOSE i \in 1..Len(fs) : fs[i].name = name] IN
           IF name \notin DOMAIN data.m THEN f.default
           ELSE IF f.kind.k = "list_of"
                THEN List([i \in 1..Len(data.m[name].l) |->
                              normalized(f.kind.model, data.m[name].l[i])])
                ELSE data.m[name]])

\* str(ValidationError): names the model and shows the input it rejected
\* (here the string fields of the input, in declaration order)
validation_message(model, data) ==
    LET fs == SelectSeq(ModelFields(model),
                        LAMBDA f : /\ data.t = "map"
                                   /\ f.name \in DOMAIN data.m
                                   /\ data.m[f.name].t = "str")
    IN  <<"1", "validation", "error", "for", model>>
        \o [i \in 1..Len(fs) |-> data.m[fs[i].name].v]

\* Model.model_validate(data), also Model(**data)
model_validate(model, data) ==
    IF valid(model, data) THEN Return(normalized(model, data))
    ELSE Raise("ValidationError", validation_message(model, data))

(***************************************************************************)
(* is_quota_error                                                          *)
(***************************************************************************)
\* phrase in msg, both sequences of words
contains(msg, phrase) ==
    \E i \in 1..(Len(msg) - Len(phrase) + 1) :
        SubSeq(msg, i, i + Len(phrase) - 1) = phrase

\* only the error code is looked for
is_quota_error_code_only(e) == contains(e.msg, <<"insufficient_quota">>)

is_quota_error(e) ==
    \/ contains(e.msg, <<"insufficient_quota">>)
    \/ contains(e.msg, <<"exceeded", "your", "current", "quota">>)

(***************************************************************************)
(* Requests and prompts.  Long fixed prose is cut to its first words.      *)
(***************************************************************************)
StrList(ws) == List([i \in 1..Len(ws) |-> Str(ws[i])])

\* the concept is padded before it is handed over
request_data_padded(form) ==
    Map([ concept |-> Str(form.concept \o " (an adventure)"),
          party_level_start |-> Num(form.lvl_start),
          party_level_end |-> Num(form.lvl_end),
          ruleset |-> Str(form.ruleset),
          leveling_mode |-> Str("milestone"),
          tone |-> Str("mystery"),
          theme |-> Str("dungeon"),
          session_count_target |-> Num(form.sessions),
          constraints |-> StrList(<<"include at least one social scene",
                                    "include a puzzle that foreshadows the villain">>),
          include_travel |-> Bool(TRUE) ])

\* Lines 770-783: the OutlineRequest arguments made from the form input
request_data(form) ==
    Map([ concept |-> Str(form.concept),
          party_level_start |-> Num(form.lvl_start),
          party_level_end |-> Num(form.lvl_end),
          ruleset |-> Str(form.ruleset),
          leveling_mode |-> Str("milestone"),
          tone |-> Str("mystery"),
          theme |-> Str("dungeon"),
          session_count_target |-> Num(form.sessions),
          constraints |-> StrList(<<"include at least one social scene",
                                    "include a puzzle that foreshadows the villain">>),
          include_travel |-> Bool(TRUE) ])

build_outline_prompt(request) ==
    Map([k \in DOMAIN request.m \cup {"requirements"} |->
           IF k = "requirements"
           THEN StrList(<<"Beats should be 5-9 items",
                          "Include at least 2 hooks.",
                          "Include at least 3 key NPCs and at least 1 faction",
                          "continuity_promises: include 5-12 bullet-style facts">>)
           ELSE request.m[k]])

build_detailed_prompt(request, o) ==
    Map([ request |-> request,
          outline |-> o,
          requirements |->
              StrList(<<"Create 5-9 scenes (S1..S#). Each scene must link_to_beats.",
                        "include at least 1 combat encounter and at least 1 non-combat encounter.",
                        "Encounters must include win_condition and fail_forward",
                        "Level progression must be structured and sensible",
                        "If leveling_mode is milestone, place level-ups after key scenes.",
                        "Estimated_minutes should roughly match session_count_target",
                        "Honor continuity_promises exactly">>) ])

build_scene_expansion_prompt(request, o, detailed, sc) ==
    Map([ request |-> request,
          outline |-> o,
          continuity_promises |-> o.m["continuity_promises"],
          scene |-> sc,
          requirements |->
              StrList(<<"Expand ONLY the given scene into a step-by-step DM guide.",
                        "Write 5-10 LocationStep entries",
                        "Each LocationStep MUST include player_read_aloud and dm_background.",
                        "Include concrete spatial progression",
                        "Integrate the scene's encounters",
                        "Always include fail_forward outcomes",
                        "Keep read-aloud to 2-6 sentences each",
                        "Avoid copyrighted settings",
                        "If ruleset is system_agnostic, phrase checks as Easy/Moderate/Hard">>) ])

\* one call of client.responses.create, as generate_json_schema makes it
Call(schema_name, user_payload, extra_instructions) ==
    [ schema_name |-> schema_name,
      user_payload |-> JsonText(user_payload),
      extra_instructions |-> extra_instructions ]

OutlineCall(request) ==
    Call("adventure_outline", build_outline_prompt(request),
         "Create the HIGH-LEVEL AdventureOutline JSON now.")

DetailedCall(request, o) ==
    Call("detailed_adventure_outline", build_detailed_prompt(request, o),
         "Now expand into a DETAILED Adventure outline")

SceneCall(request, o, detailed, sc) ==
    Call("expanded_scene_guide", build_scene_expansion_prompt(request, o, detailed, sc),
         "Create an ExpandedSceneGuide JSON for ONLY this scene.")

(***************************************************************************)
(* Demo mode: demo_outline_response and demo_scene_guide                   *)
(***************************************************************************)
Min(a, b) == IF a < b THEN a ELSE b

KeyNPC(name, role) ==
    Map([ name |-> Str(name), role |-> Str(role), public_face |-> Str("..."),
          secret |-> Str("..."), leverage |-> Str("...") ])

Faction(name, goal) ==
    Map([ name |-> Str(name), goal |-> Str(goal), method |-> Str("..."),
          complication |-> Str("...") ])

StoryBeat(beat_id, title) ==
    Map([ beat_id |-> Str(beat_id), title |-> Str(title), purpose |-> Str("..."),
          stakes |-> Str("..."), twist_or_reveal |-> Str("...") ])

Encounter(encounter_id, type, difficulty) ==
    Map([ encounter_id |-> Str(encounter_id), type |-> Str(type),
          difficulty |-> Str(difficulty), summary |-> Str("..."),
          win_condition |-> Str("..."), fail_forward |-> Str("..."),
          setup |-> StrList(<<"...">>), scaling_notes |-> StrList(<<"...">>) ])

Scene(scene_id, title, encounters, beat, minutes) ==
    Map([ scene_id |-> Str(scene_id), title |-> Str(title), location |-> Str("..."),
          goal |-> Str("..."), boxed_text |-> Str("..."),
          obstacles |-> StrList(<<"...">>), encounters |-> List(encounters),
          clues_and_info |-> StrList(<<"...">>), rewards |-> StrList(<<"...">>),
          consequences |-> StrList(<<"...">>), links_to_beats |-> StrList(<<beat>>),
          estimated_minutes |-> Num(minutes) ])

LevelProgressionStep(step_id, after_scene_id, level) ==
    Map([ step_id |-> Str(step_id), after_scene_id |-> Str(after_scene_id),
          level |-> Num(level), rationale |-> Str("Milestone: ..."),
          optional_side_objectives |-> StrList(<<"...">>) ])

\* Lines 360-452
demo_outline(request) ==
    Map([ title |-> Str("Demo: The Leyline Theft"),
          logline |-> Str("(Demo mode) A short adventure based on: "
                          \o request.m["concept"].v),
          central_conflict |-> Str("A hidden engine is siphoning ley energy"),
          villain_or_antagonist |-> Str("The Conduit Architect"),
          themes |-> List(<<request.m["theme"], request.m["tone"],
                            Str("mystery"), Str("consequence")>>),
          hooks |-> StrList(<<"A trading caravan vanishes", "A village well reflects a different sky">>),
          key_npcs |-> List(<<KeyNPC("Elder Myrla Fen", "Hamlet leader and guide"),
                              KeyNPC("Archivist Rell", "Obsessive researcher"),
                              KeyNPC("Silk-in-the-Mist", "Fey emissary (ambiguous ally)")>>),
          factions |-> List(<<Faction("The Lantern Wardens", "Keep the road open and people alive"),
                              Faction("The Mirror Court (Fey)", "Exploit the thinning veil for territory")>>),
          beats |-> List(<<StoryBeat("B1", "The Road that Repeats"),
                           StoryBeat("B2", "A Hamlet on Stilts"),
                           StoryBeat("B3", "The Draconic Gate"),
                           StoryBeat("B4", "The Conduit Chamber"),
                           StoryBeat("B5", "Choice at Dawn")>>),
          continuity_promises |->
              StrList(<<"Reality glitches manifest as loops", "A focus crystal/lens is a key component",
                        "The hamlet depends on the party", "The ruins are draconic/dragonborn in origin",
                        "A fey faction benefits", "The antagonist is motivated by grief">>) ])

\* the next level, whatever the end level is
mid_level_always_next(request) == request.m["party_level_start"].n + 1

\* two levels up when the end level is higher
mid_level_two_up(request) ==
    IF request.m["party_level_end"].n > request.m["party_level_start"].n
    THEN request.m["party_level_start"].n + 2
    ELSE request.m["party_level_start"].n

\* Lines 454-456
mid_level(request) ==
    IF request.m["party_level_end"].n > request.m["party_level_start"].n
    THEN Min(request.m["party_level_start"].n + 1, request.m["party_level_end"].n)
    ELSE request.m["party_level_start"].n

\* Lines 458-616
demo_detailed(request, o) ==
    Map([ outline_title |-> o.m["title"],
          structure_notes |-> StrList(<<"Demo mode: no API calls were made.",
                                        "Includes combat and non-combat encounters">>),
          scenes |->
              List(<<Scene("S1", "The Road that Repeats",
                           <<Encounter("E1", "skill_challenge", "medium")>>, "B1", 45),
                     Scene("S2", "A Hamlet on Stilts",
                           <<Encounter("E2", "social", "medium")>>, "B2", 50),
                     Scene("S3", "The Draconic Gate",
                           <<Encounter("E3", "puzzle", "medium")>>, "B3", 45),
                     Scene("S4", "The Conduit Chamber",
                           <<Encounter("E4", "combat", "hard")>>, "B4", 60),
                     Scene("S5", "Choice at Dawn",
                           <<Encounter("E5", "social", "medium")>>, "B5", 45)>>),
          level_progression |->
              List(<<LevelProgressionStep("L1", "S2", mid_level(request)),
                     LevelProgressionStep("L2", "S4", request.m["party_level_end"].n)>>),
          optional_side_quests |-> StrList(<<"Night Watch", "The Well-Sky">>),
          recap_questions |-> StrList(<<"Which faction did you trust the most, and why?">>) ])

OutlineResponse(o, detailed) == Map([outline |-> o, detailed |-> detailed])

\* only the first three scenes are kept
demo_outline_response_three_scenes(request) ==
    LET d == demo_detailed(request, demo_outline(request)) IN
    Return(OutlineResponse(demo_outline(request),
               Map([k \in DOMAIN d.m |->
                      IF k = "scenes" THEN List(SubSeq(d.m[k].l, 1, 3)) ELSE d.m[k]])))

\* demo_outline_response(req): every model it builds is validated on
\* construction
demo_outline_response(request) ==
    LET o == model_validate("AdventureOutline", demo_outline(request)) IN
    IF ~o.ok THEN o
    ELSE LET d == model_validate("DetailedAdventureOutline", demo_detailed(request, o.value)) IN
         IF ~d.ok THEN d ELSE Return(OutlineResponse(o.value, d.value))

LocationStep(step_id, location_name) ==
    Map([ step_id |-> Str(step_id), location_name |-> Str(location_name),
          player_read_aloud |-> Str("..."), dm_background |-> Str("..."),
          sensory_details |-> StrList(<<"...">>), interactive_elements |-> StrList(<<"...">>),
          hidden_info |-> StrList(<<"...">>), checks_and_dc |-> StrList(<<"...">>),
          branching_choices |-> StrList(<<"...">>), fail_forward |-> Str("..."),
          time_pressure |-> Str("...") ])

\* Lines 664-666
cast_of(sc) ==
    LET es == sc.m["encounters"].l IN
    [i \in 1..Len(es) |->
        Str(es[i].m["encounter_id"].v \o ": " \o es[i].m["type"].v
            \o " (" \o es[i].m["difficulty"].v \o ")")]

\* Lines 620-682
demo_scene_guide(request, o, detailed, sc) ==
    model_validate("ExpandedSceneGuide",
        Map([ scene_id |-> sc.m["scene_id"],
              scene_title |-> sc.m["title"],
              dm_scene_intent |-> Str("Run this scene as a pressure-cooker"),
              scene_summary_for_dm |->
                  Str("(Demo mode) A step-by-step location run for " \o sc.m["scene_id"].v),
              cast_in_scene |->
                  IF cast_of(sc) # <<>> THEN List(cast_of(sc))
                  ELSE StrList(<<"No listed encounters; treat as exploration + revelation.">>),
              step_by_step_locations |->
                  List(<<LocationStep(sc.m["scene_id"].v \o "-L1", "Threshold & First Impression"),
                         LocationStep(sc.m["scene_id"].v \o "-L2", "The Clue Nexus"),
                         LocationStep(sc.m["scene_id"].v \o "-L3", "Trigger Point")>>),
              encounter_integration_notes |-> StrList(<<"...", "...">>),
              loot_and_rewards_detail |-> StrList(<<"A small focus shard">>),
              continuity_checks |-> StrList(<<"...", "...">>),
              optional_complications |-> StrList(<<"A fey observer">>) ]))

(***************************************************************************)
(* generate_outline_pair and generate_scene_guide, one endpoint reply at a *)
(* time.                                                                   *)
(***************************************************************************)
\* str.strip() on the titles of the model
strip(x) ==
    CASE x \in {" ", "   "} -> ""
      [] x = " Ash Market " -> "Ash Market"
      [] OTHER -> x

\* Lines 278-286: the stage-1 outline, or the exception raised
stage1_result(r) ==
    LET outline_data == generate_json_schema(r) IN
    IF ~outline_data.ok THEN outline_data
    ELSE model_validate("AdventureOutline", outline_data.value)

\* a failed stage 1 is tried once more
after_stage1_retry(cs, request, o) ==
    IF o.ok
    THEN [pc |-> "stage2", outline |-> o.value,
          calls |-> Append(cs, DetailedCall(request, o.value))]
    ELSE IF Len(cs) < 2
    THEN [pc |-> "stage1", outline |-> None, calls |-> Append(cs, OutlineCall(request))]
    ELSE [pc |-> "idle", outline |-> None, calls |-> cs]

\* Lines 286-296: after stage 1 the stage-2 call is made with the validated
\* outline, unless stage 1 raised (then the function is left, pc "idle")
after_stage1(cs, request, o) ==
    IF o.ok
    THEN [pc |-> "stage2", outline |-> o.value,
          calls |-> Append(cs, DetailedCall(request, o.value))]
    ELSE [pc |-> "idle", outline |-> None, calls |-> cs]

\* the title is tested without strip()
stage2_result_no_strip(o, r) ==
    LET detailed_data == generate_json_schema(r)
        v == IF detailed_data.ok
             THEN model_validate("DetailedAdventureOutline", detailed_data.value)
             ELSE detailed_data
    IN  IF ~v.ok THEN v
        ELSE IF v.value.m["outline_title"].v = ""
             THEN Return(OutlineResponse(o,
                      Map(setitem(v.value.m, "outline_title", o.m["title"]))))
             ELSE Return(OutlineResponse(o, v.value))

\* Lines 289-302: the OutlineResponse returned, or the exception raised
stage2_result(o, r) ==
    LET detailed_data == generate_json_schema(r)
        v == IF detailed_data.ok
             THEN model_validate("DetailedAdventureOutline", detailed_data.value)
             ELSE detailed_data
    IN  IF ~v.ok THEN v
        ELSE IF strip(v.value.m["outline_title"].v) = ""
             THEN Return(OutlineResponse(o,
                      Map(setitem(v.value.m, "outline_title", o.m["title"]))))
             ELSE Return(OutlineResponse(o, v.value))

\* Lines 344-352
scene_guide_result(r) ==
    LET data == generate_json_schema(r) IN
    IF ~data.ok THEN data ELSE model_validate("ExpandedSceneGuide", data.value)

(***************************************************************************)
(* The Streamlit script.  Every click reruns it from the top.              *)
(***************************************************************************)
Msg(words) == [t |-> "msg", words |-> words]

\* the script never stops for a missing key
no_key_stop_never == FALSE

\* the script stops for a missing key only when demo mode is ticked
no_key_stop_demo_ticked == ~api_key /\ demo_mode

\* Lines 739-741: without a key and without demo mode the script stops
\* before it looks at any button
no_key_stop == ~api_key /\ ~demo_mode

\* the except clause forgets the stored outline on a hard failure
after_generate_forget(ss, r, request) ==
    IF r.ok
    THEN [outline_result |-> r.value, last_outline_request |-> request,
          last_error |-> None, shown |-> "stored"]
    ELSE IF is_quota_error(r.exc)
    THEN [outline_result |-> demo_outline_response(request).value,
          last_outline_request |-> request,
          last_error |-> None, shown |-> "fallback"]
    ELSE [outline_result |-> None,
          last_outline_request |-> None,
          last_error |-> Msg(r.exc.msg), shown |-> "failed"]

\* the quota fallback stores the demo result without the request
after_generate_keep_request(ss, r, request) ==
    IF r.ok
    THEN [outline_result |-> r.value, last_outline_request |-> request,
          last_error |-> None, shown |-> "stored"]
    ELSE IF is_quota_error(r.exc)
    THEN [outline_result |-> demo_outline_response(request).value,
          last_outline_request |-> ss.last_outline_request,
          last_error |-> None, shown |-> "fallback"]
    ELSE [outline_result |-> ss.outline_result,
          last_outline_request |-> ss.last_outline_request,
          last_error |-> Msg(r.exc.msg), shown |-> "failed"]

\* a stored result leaves last_error as it was
after_generate_keep_error(ss, r, request) ==
    IF r.ok
    THEN [outline_result |-> r.value, last_outline_request |-> request,
          last_error |-> ss.last_error, shown |-> "stored"]
    ELSE IF is_quota_error(r.exc)
    THEN [outline_result |-> demo_outline_response(request).value,
          last_outline_request |-> request,
          last_error |-> None, shown |-> "fallback"]
    ELSE [outline_result |-> ss.outline_result,
          last_outline_request |-> ss.last_outline_request,
          last_error |-> Msg(r.exc.msg), shown |-> "failed"]

\* Lines 797-810: the session entries after the try block, r being what
\* the generation in it did
after_generate(ss, r, request) ==
    IF r.ok
    THEN [outline_result |-> r.value, last_outline_request |-> request,
          last_error |-> None, shown |-> "stored"]
    ELSE IF is_quota_error(r.exc)
    THEN [outline_result |-> demo_outline_response(request).value,
          last_outline_request |-> request,
          last_error |-> None, shown |-> "fallback"]
    ELSE [outline_result |-> ss.outline_result,
          last_outline_request |-> ss.last_outline_request,
          last_error |-> Msg(r.exc.msg), shown |-> "failed"]

\* the new guide replaces the whole dictionary
after_expand_replace(guides, r, request, result, sc) ==
    LET k == sc.m["scene_id"].v IN
    IF r.ok
    THEN [scene_guides |-> setitem(<<>>, k, r.value), shown |-> "guide"]
    ELSE IF is_quota_error(r.exc)
    THEN [scene_guides |->
              setitem(<<>>, k,
                      demo_scene_guide(request, result.m["outline"],
                                       result.m["detailed"], sc).value),
          shown |-> "guide_fallback"]
    ELSE [scene_guides |-> guides, shown |-> "guide_failed"]

\* a quota error is treated like any other error of an expansion
after_expand_no_fallback(guides, r, request, result, sc) ==
    LET k == sc.m["scene_id"].v IN
    IF r.ok
    THEN [scene_guides |-> setitem(guides, k, r.value), shown |-> "guide"]
    ELSE [scene_guides |-> guides, shown |-> "guide_failed"]

\* Lines 908-916: scene_guides after the try block of an expansion
after_expand(guides, r, request, result, sc) ==
    LET k == sc.m["scene_id"].v IN
    IF r.ok
    THEN [scene_guides |-> setitem(guides, k, r.value), shown |-> "guide"]
    ELSE IF is_quota_error(r.exc)
    THEN [scene_guides |->
              setitem(guides, k,
                      demo_scene_guide(request, result.m["outline"],
                                       result.m["detailed"], sc).value),
          shown |-> "guide_fallback"]
    ELSE [scene_guides |-> guides, shown |-> "guide_failed"]

Session ==
    [outline_result |-> outline_result,
     last_outline_request |-> last_outline_request,
     last_error |-> last_error]

\* ---- what the form and the endpoint can give ----
Form(concept, lvl_start, lvl_end) ==
    [concept |-> concept, lvl_start |-> lvl_start, lvl_end |-> lvl_end,
     ruleset |-> "5e", sessions |-> 2]

Forms ==
    { Form("A cursed lighthouse traps sailors in a time loop", 1, 3),
      Form("A cursed lighthouse traps sailors in a time loop", 5, 5),
      Form("Too short", 3, 5) }

ModelOutlineDoc ==
    Map([ title |-> Str("The Sunken Bell"),
          logline |-> Str("..."),
          central_conflict |-> Str("..."),
          villain_or_antagonist |-> Str("..."),
          themes |-> StrList(<<"mystery">>),
          hooks |-> StrList(<<"...", "...">>),
          key_npcs |-> List(<<KeyNPC("Keeper Orla", "Lighthouse keeper")>>),
          factions |-> List(<<Faction("The Tide Guild", "Salvage the wrecks")>>),
          beats |-> List(<<StoryBeat("B1", "The Bell Tolls")>>) ])

ModelTitles == {"", "   ", " Ash Market "}

ModelDetailedDoc(title) ==
    Map([ outline_title |-> Str(title),
          structure_notes |-> StrList(<<"...">>),
          scenes |-> List(<<Scene("S1", "The Bell Tolls",
                                   <<Encounter("E1", "combat", "easy")>>, "B1", 30),
                            Scene("S2", "The Lamp Room", <<>>, "B1", 30)>>),
          level_progression |-> List(<<LevelProgressionStep("L1", "S2", 4)>>) ])

ModelGuideDoc ==
    Map([ scene_id |-> Str("S1"),
          scene_title |-> Str("The Bell Tolls"),
          dm_scene_intent |-> Str("..."),
          scene_summary_for_dm |-> Str("..."),
          cast_in_scene |-> StrList(<<"Keeper Orla">>),
          step_by_step_locations |-> List(<<LocationStep("S1-L1", "The Stair")>>) ])

\* a document that lacks a required field
Without(doc, key) == Map([k \in DOMAIN doc.m \ {key} |-> doc.m[k]])

TextReply(text) == Return(Response(<<Item("message", <<Block("output_text", text)>>)>>))

EndpointErrors ==
    { Raise("RateLimitError", <<"Error", "code:", "429", "insufficient_quota">>),
      Raise("RateLimitError", <<"You", "exceeded", "your", "current", "quota">>),
      Raise("APIConnectionError", <<"Connection", "error.">>) }

BadTextReplies == { TextReply(Str("I cannot help with that")) }

\* documents with a string where the model declares a list
OutlineDocBadThemes ==
    Map(setitem(ModelOutlineDoc.m, "themes", Str("insufficient_quota")))

DetailedDocBadNotes ==
    Map(setitem(ModelDetailedDoc("Ash Market").m, "structure_notes",
                Str("insufficient_quota")))

Stage1Replies ==
    EndpointErrors \cup BadTextReplies
    \cup { TextReply(JsonText(ModelOutlineDoc)),
           TextReply(JsonText(Without(ModelOutlineDoc, "beats"))),
           TextReply(JsonText(OutlineDocBadThemes)) }

Stage2Replies ==
    EndpointErrors \cup BadTextReplies
    \cup { TextReply(JsonText(ModelDetailedDoc(x))) : x \in ModelTitles }
    \cup { TextReply(JsonText(Without(ModelDetailedDoc("Ash Market"), "scenes"))),
           TextReply(JsonText(DetailedDocBadNotes)) }

GuideDocBadCast ==
    Map(setitem(ModelGuideDoc.m, "cast_in_scene", Str("insufficient_quota")))

SceneReplies ==
    EndpointErrors \cup BadTextReplies
    \cup { TextReply(JsonText(ModelGuideDoc)),
           TextReply(JsonText(Without(ModelGuideDoc, "cast_in_scene"))),
           TextReply(JsonText(GuideDocBadCast)) }

Init ==
    /\ SchemaIdle
    /\ api_key \in BOOLEAN
    /\ demo_mode = FALSE
    /\ outline_result = None
    /\ last_outline_request = None
    /\ scene_guides = <<>>
    /\ last_error = None
    /\ pc = "idle"
    /\ req = None
    /\ outline = None
    /\ scene = None
    /\ calls = <<>>
    /\ raised = None
    /\ shown = "nothing"
    /\ reply = None
    /\ extracted = None
    /\ gen_out = None
    /\ epc = "off"

\* the part of a script run every click shares: a new run, nothing called
NewRun ==
    /\ raised' = None
    /\ reply' = None
    /\ gen_out' = None
    /\ outline' = None
    /\ UNCHANGED <<extracted, epc, api_key>>
    /\ UNCHANGED schemaVars

\* Line 716: the demo-mode checkbox is switched; no button is pressed
ToggleDemo ==
    /\ pc = "idle"
    /\ calls' = <<>>
    /\ demo_mode' = ~demo_mode
    /\ NewRun
    /\ req' = None
    /\ scene' = None
    /\ shown' = IF ~api_key /\ ~demo_mode' THEN "stopped" ELSE "nothing"
    /\ UNCHANGED <<pc, sessionVars>>

\* Lines 757-760: "Clear results"
ClickClear ==
    /\ pc = "idle"
    /\ calls' = <<>>
    /\ NewRun
    /\ req' = None
    /\ scene' = None
    /\ IF no_key_stop
       THEN /\ shown' = "stopped"
            /\ UNCHANGED sessionVars
       ELSE /\ outline_result' = None
            /\ last_outline_request' = None
            /\ last_error' = None
            /\ shown' = "cleared"
            /\ UNCHANGED scene_guides
    /\ UNCHANGED <<pc, demo_mode>>

\* Lines 762-763: "Clear scene guides"
ClickClearGuides ==
    /\ pc = "idle"
    /\ calls' = <<>>
    /\ NewRun
    /\ req' = None
    /\ scene' = None
    /\ IF no_key_stop
       THEN /\ shown' = "stopped"
            /\ UNCHANGED sessionVars
       ELSE /\ scene_guides' = <<>>
            /\ shown' = "guides_cleared"
            /\ UNCHANGED <<outline_result, last_outline_request, last_error>>
    /\ UNCHANGED <<pc, demo_mode>>

\* with a key the endpoint is called even when demo mode is ticked
Generate_key_first(form) ==
    /\ pc = "idle"
    /\ NewRun
    /\ scene' = None
    /\ UNCHANGED <<demo_mode, scene_guides>>
    /\ \E made \in {model_validate("OutlineRequest", request_data(form))} :
         IF no_key_stop THEN
             /\ shown' = "stopped"
             /\ req' = None
             /\ UNCHANGED <<pc, outline_result, last_outline_request, last_error>>
         ELSE IF ~made.ok THEN
             /\ last_error' = Msg(made.exc.msg)
             /\ shown' = "invalid"
             /\ req' = None
             /\ UNCHANGED <<pc, outline_result, last_outline_request>>
         ELSE IF demo_mode /\ ~api_key THEN
           \E result \in {demo_outline_response(made.value)} :
           \E new \in {after_generate(Session, result, made.value)} :
             /\ outline_result' = new.outline_result
             /\ last_outline_request' = new.last_outline_request
             /\ last_error' = new.last_error
             /\ shown' = new.shown
             /\ req' = made.value
             /\ UNCHANGED pc
         ELSE
             /\ pc' = "stage1"
             /\ req' = made.value
             /\ shown' = "spinner"
             /\ UNCHANGED <<outline_result, last_outline_request, last_error>>
    /\ calls' = IF pc' = "stage1" THEN <<OutlineCall(req')>> ELSE <<>>

\* Lines 769-799: "Generate outline" with the given form input, up to the
\* first call of the endpoint
Generate(form) ==
    /\ pc = "idle"
    /\ NewRun
    /\ scene' = None
    /\ UNCHANGED <<demo_mode, scene_guides>>
    /\ \E made \in {model_validate("OutlineRequest", request_data(form))} :
         IF no_key_stop THEN
             /\ shown' = "stopped"
             /\ req' = None
             /\ UNCHANGED <<pc, outline_result, last_outline_request, last_error>>
         ELSE IF ~made.ok THEN
             /\ last_error' = Msg(made.exc.msg)
             /\ shown' = "invalid"
             /\ req' = None
             /\ UNCHANGED <<pc, outline_result, last_outline_request>>
         ELSE IF demo_mode THEN
           \E result \in {demo_outline_response(made.value)} :
           \E new \in {after_generate(Session, result, made.value)} :
             /\ outline_result' = new.outline_result
             /\ last_outline_request' = new.last_outline_request
             /\ last_error' = new.last_error
             /\ shown' = new.shown
             /\ req' = made.value
             /\ UNCHANGED pc
         ELSE
             /\ pc' = "stage1"
             /\ req' = made.value
             /\ shown' = "spinner"
             /\ UNCHANGED <<outline_result, last_outline_request, last_error>>
    /\ calls' = IF pc' = "stage1" THEN <<OutlineCall(req')>> ELSE <<>>

ClickGenerate == \E form \in Forms : Generate(form)

\* the endpoint answers the stage-1 call: lines 278-296, and lines 797-810
\* when stage 1 raised
Stage1Reply ==
    /\ pc = "stage1"
    /\ \E r \in Stage1Replies :
       \E o \in {stage1_result(r)} :
       \E next \in {after_stage1(calls, req, o)} :
       \E new \in {after_generate(Session, o, req)} :
             /\ reply' = r
             /\ gen_out' = generate_json_schema(r)
             /\ pc' = next.pc
             /\ calls' = next.calls
             /\ outline' = next.outline
             /\ IF next.pc = "idle"
                THEN /\ raised' = o.exc
                     /\ outline_result' = new.outline_result
                     /\ last_outline_request' = new.last_outline_request
                     /\ last_error' = new.last_error
                     /\ shown' = new.shown
                ELSE /\ raised' = None
                     /\ UNCHANGED <<outline_result, last_outline_request, last_error, shown>>
    /\ UNCHANGED <<req, scene, scene_guides, api_key, demo_mode, extracted, epc>>
    /\ UNCHANGED schemaVars

\* on a quota error of stage 2 the stage-1 outline is kept and only the
\* detailed outline is the fallback's
Stage2Reply_keep_outline ==
    /\ pc = "stage2"
    /\ \E r \in Stage2Replies :
       \E result \in {stage2_result(outline, r)} :
       \E new \in {after_generate(Session, result, req)} :
             /\ reply' = r
             /\ gen_out' = generate_json_schema(r)
             /\ raised' = IF result.ok THEN None ELSE result.exc
             /\ outline_result' =
                    IF new.shown = "fallback"
                    THEN OutlineResponse(outline, new.outline_result.m["detailed"])
                    ELSE new.outline_result
             /\ last_outline_request' = new.last_outline_request
             /\ last_error' = new.last_error
             /\ shown' = new.shown
    /\ pc' = "idle"
    /\ UNCHANGED <<req, outline, scene, calls, scene_guides, api_key, demo_mode,
                   extracted, epc>>
    /\ UNCHANGED schemaVars

\* the endpoint answers the stage-2 call: lines 289-302 and 797-810
Stage2Reply ==
    /\ pc = "stage2"
    /\ \E r \in Stage2Replies :
       \E result \in {stage2_result(outline, r)} :
       \E new \in {after_generate(Session, result, req)} :
             /\ reply' = r
             /\ gen_out' = generate_json_schema(r)
             /\ raised' = IF result.ok THEN None ELSE result.exc
             /\ outline_result' = new.outline_result
             /\ last_outline_request' = new.last_outline_request
             /\ last_error' = new.last_error
             /\ shown' = new.shown
    /\ pc' = "idle"
    /\ UNCHANGED <<req, outline, scene, calls, scene_guides, api_key, demo_mode,
                   extracted, epc>>
    /\ UNCHANGED schemaVars

\* buttons are drawn for the scenes of the demo outline
StoredScenes_demo ==
    IF outline_result = None THEN <<>>
    ELSE demo_detailed(last_outline_request, outline_result.m["outline"]).m["scenes"].l

\* the scenes of the stored result, for which lines 860-896 draw a button
StoredScenes ==
    IF outline_result = None THEN <<>>
    ELSE outline_result.m["detailed"].m["scenes"].l

\* Lines 896-907: "Expand <scene> (DM Guide)", up to the call of the endpoint
ClickExpand ==
    /\ pc = "idle"
    /\ NewRun
    /\ UNCHANGED <<demo_mode, outline_result, last_outline_request, last_error>>
    /\ \E i \in 1..Min(Len(StoredScenes), MaxScenes) :
       \E s \in {StoredScenes[i]} :
         IF no_key_stop THEN
             /\ shown' = "stopped"
             /\ req' = None
             /\ scene' = None
             /\ calls' = <<>>
             /\ UNCHANGED <<pc, scene_guides>>
         ELSE IF last_outline_request = None THEN
             /\ shown' = "need_outline"
             /\ req' = None
             /\ scene' = None
             /\ calls' = <<>>
             /\ UNCHANGED <<pc, scene_guides>>
         ELSE IF demo_mode \/ ~api_key THEN
           \E guide \in {demo_scene_guide(last_outline_request,
                                outline_result.m["outline"],
                                outline_result.m["detailed"], s)} :
           \E new \in {after_expand(scene_guides, guide, last_outline_request,
                                   outline_result, s)} :
                 /\ scene_guides' = new.scene_guides
                 /\ shown' = new.shown
                 /\ req' = last_outline_request
                 /\ scene' = s
                 /\ calls' = <<>>
                 /\ UNCHANGED pc
         ELSE
             /\ pc' = "scene"
             /\ req' = last_outline_request
             /\ scene' = s
             /\ shown' = "spinner"
             /\ calls' = <<SceneCall(last_outline_request,
                                     outline_result.m["outline"],
                                     outline_result.m["detailed"], s)>>
             /\ UNCHANGED scene_guides

\* the endpoint answers the scene call: lines 344-352 and 908-916
SceneReply ==
    /\ pc = "scene"
    /\ \E r \in SceneReplies :
       \E guide \in {scene_guide_result(r)} :
       \E new \in {after_expand(scene_guides, guide, req, outline_result, scene)} :
             /\ reply' = r
             /\ gen_out' = generate_json_schema(r)
             /\ raised' = IF guide.ok THEN None ELSE guide.exc
             /\ scene_guides' = new.scene_guides
             /\ shown' = new.shown
    /\ pc' = "idle"
    /\ UNCHANGED <<req, outline, scene, calls, outline_result, last_outline_request,
                   last_error, api_key, demo_mode, extracted, epc>>
    /\ UNCHANGED schemaVars

\* Lines 919-922: "Remove DM Guide for <scene>", drawn for a scene of the
\* stored result that has a guide
ClickRemove ==
    /\ pc = "idle"
    /\ NewRun
    /\ calls' = <<>>
    /\ req' = None
    /\ scene' = None
    /\ UNCHANGED <<pc, demo_mode, outline_result, last_outline_request, last_error>>
    /\ \E i \in 1..Min(Len(StoredScenes), MaxScenes) :
       \E k \in {StoredScenes[i].m["scene_id"].v} :
         /\ k \in DOMAIN scene_guides
         /\ IF no_key_stop
            THEN /\ shown' = "stopped"
                 /\ UNCHANGED scene_guides
            ELSE /\ scene_guides' = [x \in DOMAIN scene_guides \ {k} |-> scene_guides[x]]
                 /\ shown' = "removed"

Next ==
    \/ ToggleDemo
    \/ ClickClear
    \/ ClickClearGuides
    \/ ClickGenerate
    \/ Stage1Reply
    \/ Stage2Reply
    \/ ClickExpand
    \/ SceneReply
    \/ ClickRemove

Spec == Init /\ [][Next]_vars

(***************************************************************************)
(* Properties of the outline pipeline and of the session, checked under    *)
(* Spec.                                                                   *)
(***************************************************************************)
\* the text of a reply of the endpoint that carries one text block
ReplyText(r) == r.value.output[1].content[1].text

\* the reply is a response whose text is a document accepted as the model
ReplyValidAs(model, r) ==
    /\ r.ok
    /\ ReplyText(r).t = "json"
    /\ valid(model, ReplyText(r).doc)

\* the words of a message hold one of the two quota texts
MentionsQuota(words) ==
    \/ \E i \in 1..Len(words) : words[i] = "insufficient_quota"
    \/ \E i \in 1..Len(words) :
         /\ i + 3 <= Len(words)
         /\ words[i] = "exceeded" /\ words[i+1] = "your"
         /\ words[i+2] = "current" /\ words[i+3] = "quota"

InPipeline == pc \in {"stage1", "stage2"}

\* C1: one invocation of generate_outline_pair calls the endpoint at most
\* once for adventure_outline and then at most once for
\* detailed_adventure_outline; the second call is made only in the step
\* that validated the stage-1 reply as an AdventureOutline and its payload
\* holds exactly that outline; a stage that fails ends the invocation with
\* its exception, no call repeated and none added.
PipelineCallsSequential ==
    [][ /\ \A i \in 1..Len(calls') :
              /\ calls'[i].schema_name = "adventure_outline" => i = 1
              /\ calls'[i].schema_name = "detailed_adventure_outline" =>
                     i = 2 /\ calls'[1].schema_name = "adventure_outline"
        /\ (Len(calls') = 2 /\ Len(calls) # 2) =>
              /\ pc = "stage1"
              /\ ReplyValidAs("AdventureOutline", reply')
              /\ outline' = normalized("AdventureOutline", ReplyText(reply').doc)
              /\ calls'[2].user_payload.doc.m["outline"] = outline'
              /\ calls'[2].user_payload.doc.m["request"] = req
        /\ (pc = "stage1" /\ ~ReplyValidAs("AdventureOutline", reply')) =>
              /\ pc' = "idle" /\ calls' = calls /\ raised' # None
              /\ ~reply'.ok => raised' = reply'.exc
        /\ (pc = "stage2" /\ ~ReplyValidAs("DetailedAdventureOutline", reply')) =>
              /\ pc' = "idle" /\ calls' = calls /\ raised' # None
              /\ ~reply'.ok => raised' = reply'.exc
      ]_vars

\* the stage-2 call is out, made from the outline stage 1 returned
PipelineCallsWitness ==
    /\ pc = "stage2"
    /\ Len(calls) = 2
    /\ outline # None
    /\ outline.m["title"] = Str("The Sunken Bell")
    /\ calls[2].user_payload.doc.m["outline"].m["continuity_promises"] = EmptyList

\* C2: when generate_outline_pair raises an error whose message holds
\* "insufficient_quota" or "exceeded your current quota", the demo result
\* for the same request is stored, last_error is cleared and no call is
\* made; any other error is recorded in last_error and nothing is stored.
QuotaErrorRouting ==
    [][ (InPipeline /\ raised' # None) =>
          IF MentionsQuota(raised'.msg)
          THEN /\ outline_result' = demo_outline_response(req).value
               /\ outline_result'.m["outline"].m["title"] = Str("Demo: The Leyline Theft")
               /\ last_outline_request' = req
               /\ last_error' = None
               /\ calls' = calls
               /\ pc' = "idle"
               /\ shown' = "fallback"
          ELSE /\ last_error' = Msg(raised'.msg)
               /\ outline_result' = outline_result
               /\ last_outline_request' = last_outline_request
               /\ calls' = calls
               /\ pc' = "idle"
               /\ shown' = "failed"
      ]_vars

\* stage 2 failed with "exceeded your current quota" and the demo result was
\* stored
QuotaErrorRoutingWitness ==
    /\ pc = "idle"
    /\ shown = "fallback"
    /\ Len(calls) = 2
    /\ raised # None
    /\ contains(raised.msg, <<"exceeded", "your", "current", "quota">>)
    /\ outline_result = demo_outline_response(req).value
    /\ last_error = None

StageFailed == pc \in {"stage1", "stage2", "scene"} /\ raised' # None

\* C3 as stated: whenever a generation stage fails, outline_result,
\* last_outline_request and scene_guides are left as they were.
FailureKeepsStoredResults ==
    [][ StageFailed =>
          UNCHANGED <<outline_result, last_outline_request, scene_guides>> ]_vars

\* C3 as amended: whenever a generation stage fails with an error that is
\* not a quota error, outline_result, last_outline_request and scene_guides
\* are left as they were; and after a failed stage 2 the stored outline is
\* never the stage-1 outline of that run: it is the one stored before, or
\* the demo outline.
HardFailureKeepsStoredResults ==
    [][ /\ (StageFailed /\ ~MentionsQuota(raised'.msg)) =>
              UNCHANGED <<outline_result, last_outline_request, scene_guides>>
        /\ (pc = "stage2" /\ raised' # None) =>
              \/ outline_result' = outline_result
              \/ outline_result'.m["outline"] = demo_outline_response(req).value.m["outline"]
      ]_vars

\* stage 2 failed with another error while a result and a guide were stored
HardFailureWitness ==
    /\ pc = "idle"
    /\ shown = "failed"
    /\ Len(calls) = 2
    /\ raised # None
    /\ ~MentionsQuota(raised.msg)
    /\ outline_result # None
    /\ outline_result.m["outline"] # outline
    /\ DOMAIN scene_guides # {}

\* a title made of whitespace only
IsBlank(x) == x \in {"", " ", "   "}

\* C10: in the OutlineResponse generate_outline_pair returns, the outline is
\* the validated stage-1 outline unchanged, and detailed.outline_title is
\* the stage-1 title when the stage-2 title is empty or whitespace only,
\* and the stage-2 title exactly as returned otherwise.
TitleBackfill ==
    [][ (pc = "stage2" /\ raised' = None) =>
          /\ ReplyValidAs("DetailedAdventureOutline", reply')
          /\ outline_result'.m["outline"] = outline
          /\ outline' = outline
          /\ outline_result'.m["detailed"].m["outline_title"] =
                IF IsBlank(ReplyText(reply').doc.m["outline_title"].v)
                THEN outline.m["title"]
                ELSE ReplyText(reply').doc.m["outline_title"]
          /\ \A k \in DOMAIN outline_result'.m["detailed"].m \ {"outline_title"} :
                outline_result'.m["detailed"].m[k] =
                    normalized("DetailedAdventureOutline", ReplyText(reply').doc).m[k]
      ]_vars

\* a whitespace-only stage-2 title was replaced by the stage-1 title
TitleBackfillWitness ==
    /\ pc = "idle"
    /\ shown = "stored"
    /\ Len(calls) = 2
    /\ ReplyText(reply).doc.m["outline_title"] = Str("   ")
    /\ outline_result.m["detailed"].m["outline_title"] = Str("The Sunken Bell")
    /\ outline_result.m["outline"].m["title"] = Str("The Sunken Bell")

(***************************************************************************)
(* The fallback generator over every pair of party levels the request      *)
(* model accepts: a session without a key, demo mode ticked, one "Generate *)
(* outline" click and then scene expansions.                               *)
(***************************************************************************)
\* Lines 25-26: ge=1, le=20
Levels == 1..20

DemoConcept == "A cursed lighthouse traps sailors in a time loop"
OtherConcept == "A dragon hoards the memories of a mining town"

InitDemo ==
    /\ SchemaIdle
    /\ ClientIdle
    /\ api_key = FALSE
    /\ demo_mode = TRUE
    /\ outline_result = None
    /\ last_outline_request = None
    /\ scene_guides = <<>>
    /\ last_error = None
    /\ pc = "idle"
    /\ req = None
    /\ outline = None
    /\ scene = None
    /\ calls = <<>>
    /\ raised = None
    /\ shown = "nothing"

DemoGenerate ==
    /\ outline_result = None
    /\ \E c \in {DemoConcept, OtherConcept} : \E a \in Levels : \E b \in Levels :
           Generate(Form(c, a, b))

DemoExpand == ClickExpand

NextDemo == DemoGenerate \/ DemoExpand

SpecDemo == InitDemo /\ [][NextDemo]_vars

\* the stored request's levels and the stored level-progression steps
StoredStart == last_outline_request.m["party_level_start"].n
StoredEnd == last_outline_request.m["party_level_end"].n
StoredSteps == outline_result.m["detailed"].m["level_progression"].l
StepLevel(i) == StoredSteps[i].m["level"].n

\* C11: for every party_level_start and party_level_end in 1..20 the
\* fallback result has exactly two level-progression steps: L1 with level
\* min(start + 1, end) when end > start and start otherwise, L2 with level
\* end (3,5 gives 4 and 5; 5,5 gives 5 and 5; 3,3 gives 3 and 3).
FallbackLevels ==
    outline_result # None =>
        /\ Len(StoredSteps) = 2
        /\ StoredSteps[1].m["step_id"] = Str("L1")
        /\ StoredSteps[2].m["step_id"] = Str("L2")
        /\ StepLevel(1) = IF StoredEnd > StoredStart
                          THEN (IF StoredStart + 1 <= StoredEnd
                                THEN StoredStart + 1 ELSE StoredEnd)
                          ELSE StoredStart
        /\ StepLevel(2) = StoredEnd
        /\ (StoredStart = 3 /\ StoredEnd = 5) => (StepLevel(1) = 4 /\ StepLevel(2) = 5)
        /\ (StoredStart = 5 /\ StoredEnd = 5) => (StepLevel(1) = 5 /\ StepLevel(2) = 5)
        /\ (StoredStart = 3 /\ StoredEnd = 3) => (StepLevel(1) = 3 /\ StepLevel(2) = 3)

\* the fallback result for levels 3 to 5 is stored
FallbackLevelsWitness ==
    /\ outline_result # None
    /\ StoredStart = 3 /\ StoredEnd = 5
    /\ StepLevel(1) = 4 /\ StepLevel(2) = 5

\* C12 as stated: for every accepted request, level(L1) <= level(L2) in the
\* fallback result.
FallbackLevelsMonotonic ==
    outline_result # None => StepLevel(1) <= StepLevel(2)

\* C12 as amended: level(L1) <= level(L2) for every accepted request with
\* party_level_end >= party_level_start; with party_level_end below
\* party_level_start the steps are start and then end, a decreasing pair.
FallbackLevelsMonotonicWhenOrdered ==
    outline_result # None =>
        /\ StoredEnd >= StoredStart => StepLevel(1) <= StepLevel(2)
        /\ StoredEnd < StoredStart =>
              /\ StepLevel(1) = StoredStart
              /\ StepLevel(2) = StoredEnd
              /\ StepLevel(1) > StepLevel(2)

\* the fallback result for levels 4 to 5, where the step up is capped by
\* the end level
FallbackLevelsMonotonicWitness ==
    /\ outline_result # None
    /\ StoredStart = 4 /\ StoredEnd = 5
    /\ StepLevel(1) = 5 /\ StepLevel(2) = 5

\* the model the reply of the running stage is validated as
StageModel == IF pc = "stage1" THEN "AdventureOutline" ELSE "DetailedAdventureOutline"

\* the reply carries JSON that the stage's model rejects
SchemaFailure(r) ==
    /\ r.ok
    /\ ReplyText(r).t = "json"
    /\ ~valid(StageModel, ReplyText(r).doc)

\* C13: when the JSON returned for stage 1 or stage 2 does not validate as
\* the stage's model, the error is recorded in last_error and no result,
\* demo or otherwise, is stored, whatever the message of the validation
\* error holds.
SchemaFailureIsHard ==
    [][ (InPipeline /\ SchemaFailure(reply')) =>
          /\ last_error' # None
          /\ UNCHANGED <<outline_result, last_outline_request>>
          /\ shown' = "failed"
      ]_vars

\* the form input breaks a constraint OutlineRequest declares
FormViolates(form) ==
    \/ Len(form.concept) < 10
    \/ form.lvl_start \notin 1..20
    \/ form.lvl_end \notin 1..20
    \/ form.sessions \notin 1..20
    \/ form.ruleset \notin {"5e", "system_agnostic"}

\* form inputs past the limits of the sidebar widgets, as OutlineRequest
\* would be handed them by another caller
ViolatingForms ==
    { Form("Too short", 3, 5),
      Form(DemoConcept, 0, 5),
      Form(DemoConcept, 3, 21),
      [Form(DemoConcept, 3, 5) EXCEPT !.sessions = 0],
      [Form(DemoConcept, 3, 5) EXCEPT !.ruleset = "pathfinder"] }

\* C14: when the form input violates a declared OutlineRequest constraint,
\* the click records the validation error in last_error and ends the run:
\* no call of the endpoint, no fallback result, and outline_result,
\* last_outline_request and scene_guides as they were.
InvalidInputStopsRun ==
    [][ /\ \A form \in ViolatingForms :
              /\ FormViolates(form)
              /\ ~model_validate("OutlineRequest", request_data(form)).ok
        /\ \A form \in Forms :
              (Generate(form) /\ FormViolates(form) /\ ~no_key_stop) =>
                  /\ last_error' # None
                  /\ last_error' = Msg(<<"1", "validation", "error", "for",
                                          "OutlineRequest", form.concept, form.ruleset,
                                          "milestone", "mystery", "dungeon">>)
                  /\ calls' = <<>>
                  /\ pc' = "idle"
                  /\ raised' = None
                  /\ shown' = "invalid"
                  /\ UNCHANGED <<outline_result, last_outline_request, scene_guides>>
      ]_vars

\* an invalid form was submitted while a result and a guide were stored
InvalidInputWitness ==
    /\ shown = "invalid"
    /\ last_error # None
    /\ outline_result # None
    /\ DOMAIN scene_guides # {}
    /\ calls = <<>>

\* the step is a scene expansion: the click, or the endpoint's reply to it
ExpansionStep == (ClickExpand \/ SceneReply) /\ scene' # None

\* C15: a scene expansion, whether it succeeds, falls back or fails,
\* leaves outline_result and last_outline_request as they were and changes
\* at most the entry of scene_guides for the expanded scene's id.
ExpansionTouchesOneGuide ==
    [][ /\ ExpansionStep =>
              /\ UNCHANGED <<outline_result, last_outline_request>>
              /\ \A j \in (DOMAIN scene_guides \cup DOMAIN scene_guides')
                              \ {scene'.m["scene_id"].v} :
                    /\ j \in DOMAIN scene_guides
                    /\ j \in DOMAIN scene_guides'
                    /\ scene_guides'[j] = scene_guides[j]
        /\ (ClickExpand /\ scene' = None) =>
              UNCHANGED <<outline_result, last_outline_request, scene_guides>>
      ]_vars

\* S2 was expanded after S1, and both guides are stored
ExpansionTouchesOneGuideWitness ==
    /\ pc = "idle"
    /\ scene # None
    /\ scene.m["scene_id"] = Str("S2")
    /\ DOMAIN scene_guides = {"S1", "S2"}
    /\ scene_guides["S1"] # scene_guides["S2"]
    /\ shown \in {"guide", "guide_fallback"}

\* C16: a scene-guide generation, by the endpoint or by the demo generator,
\* is triggered only while an OutlineResponse is stored, and for a scene of
\* the stored detailed outline.
ExpandOnlyStoredScenes ==
    [][ /\ scene' # None =>
              /\ outline_result # None
              /\ outline_result' = outline_result
              /\ \E i \in 1..Len(outline_result.m["detailed"].m["scenes"].l) :
                    outline_result.m["detailed"].m["scenes"].l[i] = scene'
        /\ (\E i \in 1..Len(calls') :
                 calls'[i].schema_name = "expanded_scene_guide") =>
              /\ scene' # None
              /\ calls' = <<SceneCall(last_outline_request, outline_result.m["outline"],
                                      outline_result.m["detailed"], scene')>>
        /\ DOMAIN scene_guides' # DOMAIN scene_guides =>
              \/ scene' # None
              \/ ClickClearGuides
              \/ ClickRemove
      ]_vars

\* the endpoint was called for the second scene of a stored outline
ExpandOnlyStoredScenesWitness ==
    /\ pc = "scene"
    /\ outline_result # None
    /\ scene = outline_result.m["detailed"].m["scenes"].l[2]
    /\ Len(calls) = 1
    /\ calls[1].schema_name = "expanded_scene_guide"

\* the party levels at the ends of the accepted range
CornerLevels == {1, 20}

\* C17: with demo mode on, "Generate outline" with a valid form and every
\* scene expansion call the endpoint zero times, raise nothing and store a
\* result: demo_outline_response returns an OutlineResponse for the request
\* (and for the requests at the ends of the level range), demo_scene_guide
\* returns an ExpandedSceneGuide for the scene, with or without encounters.
FallbackNeverFails ==
    [][ /\ \A form \in Forms :
              (demo_mode /\ Generate(form) /\ ~FormViolates(form)) =>
                  /\ calls' = <<>>
                  /\ pc' = "idle"
                  /\ raised' = None
                  /\ last_error' = None
                  /\ shown' = "stored"
                  /\ outline_result' # None
                  /\ DOMAIN outline_result'.m = {"outline", "detailed"}
                  /\ valid("AdventureOutline", outline_result'.m["outline"])
                  /\ valid("DetailedAdventureOutline", outline_result'.m["detailed"])
                  /\ outline_result'.m["outline"].m["title"] = Str("Demo: The Leyline Theft")
                  /\ last_outline_request' = req'
                  /\ \A a \in CornerLevels : \A b \in CornerLevels :
                        demo_outline_response(
                            model_validate("OutlineRequest",
                                request_data(Form(form.concept, a, b))).value).ok
        /\ (demo_mode /\ ClickExpand) =>
              /\ scene' # None
              /\ calls' = <<>>
              /\ pc' = "idle"
              /\ raised' = None
              /\ shown' = "guide"
              /\ scene'.m["scene_id"].v \in DOMAIN scene_guides'
              /\ valid("ExpandedSceneGuide", scene_guides'[scene'.m["scene_id"].v])
              /\ scene_guides'[scene'.m["scene_id"].v].m["scene_id"] = scene'.m["scene_id"]
              /\ scene_guides'[scene'.m["scene_id"].v].m["scene_title"] = scene'.m["title"]
      ]_vars

\* demo mode expanded a scene that has no encounters
FallbackNeverFailsWitness ==
    /\ demo_mode
    /\ pc = "idle"
    /\ shown = "guide"
    /\ calls = <<>>
    /\ scene # None
    /\ scene.m["encounters"] = EmptyList
    /\ scene_guides[scene.m["scene_id"].v].m["cast_in_scene"] =
           StrList(<<"No listed encounters; treat as exploration + revelation.">>)

\* the step serves the click from the fallback generator
ServedByFallback ==
    /\ calls' = <<>>
    /\ pc' = "idle"
    /\ raised' = None

\* the step is a run that stopped at the missing-key warning
StoppedForKey ==
    /\ shown' = "stopped"
    /\ calls' = <<>>
    /\ pc' = "idle"
    /\ UNCHANGED <<outline_result, last_outline_request, scene_guides, last_error>>

\* C18 as stated: without a key, "Generate outline" and a scene expansion
\* are served by the fallback generator, a result stored and no call made,
\* whether or not demo mode is ticked.
NoKeyServedByFallback ==
    [][ /\ \A form \in Forms :
              (~api_key /\ Generate(form) /\ ~FormViolates(form)) =>
                  /\ ServedByFallback
                  /\ shown' = "stored"
                  /\ outline_result' = demo_outline_response(req').value
        /\ (~api_key /\ ClickExpand) =>
              /\ ServedByFallback
              /\ shown' = "guide"
              /\ scene' # None
              /\ scene'.m["scene_id"].v \in DOMAIN scene_guides'
      ]_vars

\* C18 as amended: without a key and with demo mode ticked, "Generate
\* outline" and a scene expansion are served by the fallback generator, a
\* result stored and no call made; without a key and with demo mode not
\* ticked the run stops at the missing-key warning, and nothing is
\* generated or stored.  No call is ever made without a key.
NoKeyNeedsDemoMode ==
    [][ /\ \A form \in Forms :
              (~api_key /\ Generate(form) /\ ~FormViolates(form)) =>
                  IF demo_mode
                  THEN /\ ServedByFallback
                       /\ shown' = "stored"
                       /\ outline_result' = demo_outline_response(req').value
                       /\ last_outline_request' = req'
                  ELSE StoppedForKey
        /\ (~api_key /\ ClickExpand) =>
              IF demo_mode
              THEN /\ ServedByFallback
                   /\ shown' = "guide"
                   /\ scene' # None
                   /\ scene'.m["scene_id"].v \in DOMAIN scene_guides'
                   /\ scene_guides'[scene'.m["scene_id"].v] =
                          demo_scene_guide(last_outline_request, outline_result.m["outline"],
                                           outline_result.m["detailed"], scene').value
              ELSE StoppedForKey
        /\ ~api_key => (calls' = <<>> /\ pc' = "idle")
      ]_vars

\* without a key: a result was stored under demo mode, demo mode was then
\* switched off and the next click stopped at the warning
NoKeyNeedsDemoModeWitness ==
    /\ ~api_key
    /\ ~demo_mode
    /\ shown = "stopped"
    /\ outline_result # None
    /\ outline_result.m["outline"].m["title"] = Str("Demo: The Leyline Theft")
    /\ calls = <<>>

\* the beats and scenes of the stored result, and the types of all its
\* encounters
StoredBeats == outline_result.m["outline"].m["beats"].l
StoredDetailedScenes == outline_result.m["detailed"].m["scenes"].l
StoredEncounterTypes ==
    UNION { { StoredDetailedScenes[i].m["encounters"].l[j].m["type"].v :
                j \in 1..Len(StoredDetailedScenes[i].m["encounters"].l) } :
            i \in 1..Len(StoredDetailedScenes) }

\* C19: for every valid request the fallback result has 5 to 9 beats with
\* ids B1..Bn in order, 5 to 9 scenes with ids S1..Sm in order, encounters
\* that include a "combat" one and one of another type, and exactly two
\* level-progression steps (levels 2 and 3 for a request from 1 to 3).
FallbackStructure ==
    outline_result # None =>
        /\ Len(StoredBeats) \in 5..9
        /\ \A i \in 1..Len(StoredBeats) :
              StoredBeats[i].m["beat_id"] = Str("B" \o ToString(i))
        /\ Len(StoredDetailedScenes) \in 5..9
        /\ \A i \in 1..Len(StoredDetailedScenes) :
              StoredDetailedScenes[i].m["scene_id"] = Str("S" \o ToString(i))
        /\ "combat" \in StoredEncounterTypes
        /\ StoredEncounterTypes \ {"combat"} # {}
        /\ Len(StoredSteps) = 2
        /\ (StoredStart = 1 /\ StoredEnd = 3) => (StepLevel(1) = 2 /\ StepLevel(2) = 3)

\* the fallback result for levels 1 to 3 is stored
FallbackStructureWitness ==
    /\ outline_result # None
    /\ StoredStart = 1 /\ StoredEnd = 3
    /\ StepLevel(1) = 2 /\ StepLevel(2) = 3
    /\ Len(StoredBeats) = 5
    /\ Len(StoredDetailedScenes) = 5
    /\ last_outline_request.m["concept"] = Str(OtherConcept)

\* the guide g is one that an expansion of scene sc of the stored outline
\* stores: the endpoint's guide, or the demo guide of sc
GuideMadeFor(g, sc) ==
    \/ g = normalized("ExpandedSceneGuide", ModelGuideDoc)
    \/ g = demo_scene_guide(last_outline_request, outline_result.m["outline"],
                            outline_result.m["detailed"], sc).value

\* C20: in every reachable session state each entry scene_guides[k] was
\* generated from the scene with id k of the outline_result now stored; no
\* guide made for an earlier outline stays stored after "Generate outline",
\* a quota fallback or "Clear results".
GuidesBelongToStoredOutline ==
    \A k \in DOMAIN scene_guides :
        /\ outline_result # None
        /\ \E i \in 1..Len(outline_result.m["detailed"].m["scenes"].l) :
              /\ outline_result.m["detailed"].m["scenes"].l[i].m["scene_id"].v = k
              /\ GuideMadeFor(scene_guides[k],
                              outline_result.m["detailed"].m["scenes"].l[i])

(***************************************************************************)
(* The stored result and the stored request, checked under Spec.           *)
(***************************************************************************)
\* a step of the generate trigger that ends in lines 797-799 or 805-806
StoresOutline ==
    /\ ClickGenerate \/ Stage1Reply \/ Stage2Reply
    /\ shown' \in {"stored", "fallback"}

\* the stored result is what the fallback gives for the stored request, or
\* what the two calls made with the stored request gave
MadeForStoredRequest ==
    /\ outline_result' # None
    /\ last_outline_request' # None
    /\ last_outline_request' = req'
    /\ \/ outline_result' = demo_outline_response(last_outline_request').value
       \/ /\ shown' = "stored"
          /\ calls' = <<OutlineCall(last_outline_request'),
                        DetailedCall(last_outline_request',
                                     outline_result'.m["outline"])>>

\* C21: outline_result is None exactly when last_outline_request is None;
\* the two are written together, the request being the one the result was
\* generated for, and are otherwise left alone or cleared together; the
\* "Generate an outline first" branch of a scene expansion is never taken.
StoredPairConsistent ==
    /\ []((outline_result = None) <=> (last_outline_request = None))
    /\ [](shown # "need_outline")
    /\ [][IF StoresOutline
           THEN MadeForStoredRequest
           ELSE \/ UNCHANGED <<outline_result, last_outline_request>>
                \/ outline_result' = None /\ last_outline_request' = None]_vars

\* the result of the two calls made for the second form is stored with
\* that form's request
StoredPairConsistentWitness ==
    /\ shown = "stored"
    /\ Len(calls) = 2
    /\ outline_result # None
    /\ last_outline_request = req
    /\ last_outline_request.m["party_level_start"].n = 5
    /\ outline_result.m["outline"].m["title"].v = "The Sunken Bell"

\* the result the fallback gives for the stored request
FallbackForStored == demo_outline_response(last_outline_request).value

\* the stored result is the fallback's as a whole, or neither of its two
\* parts is the fallback's
PairNotMixed ==
    outline_result # None =>
        \/ outline_result = FallbackForStored
        \/ /\ outline_result.m["outline"] # FallbackForStored.m["outline"]
           /\ outline_result.m["detailed"] # FallbackForStored.m["detailed"]

\* stage 2 ends: a pair that is stored holds the outline of stage 1 of this
\* run, for which the second call asked, and the detailed outline the second
\* call gave; on a quota error the fallback's pair is stored and the outline
\* of stage 1 is in none of its parts
Stage2StoresOnePair ==
    Stage2Reply =>
        /\ outline # None
        /\ shown' = "stored" =>
              /\ outline_result'.m["outline"] = outline
              /\ calls = <<OutlineCall(req), DetailedCall(req, outline)>>
              /\ outline_result' = stage2_result(outline, reply').value
        /\ (raised' # None /\ is_quota_error(raised')) =>
              /\ outline_result' = demo_outline_response(req).value
              /\ outline_result'.m["outline"] # outline
              /\ last_outline_request' = req
              /\ calls' = calls

\* C22: the outline and the detailed outline of outline_result come from
\* the same generation: both from one run of generate_outline_pair or both
\* from one call of demo_outline_response; when stage 2 fails with a quota
\* error after stage 1 succeeded, the outline of stage 1 is discarded and
\* the stored outline is the fallback's.
StoredPairNeverMixed ==
    /\ []PairNotMixed
    /\ [][Stage2StoresOnePair]_vars

\* stage 1 gave an outline, stage 2 raised a quota error, and the stored
\* pair is the fallback's
StoredPairNeverMixedWitness ==
    /\ pc = "idle"
    /\ Len(calls) = 2
    /\ outline # None
    /\ raised # None
    /\ raised.type = "RateLimitError"
    /\ shown = "fallback"
    /\ outline_result = FallbackForStored
    /\ outline_result.m["outline"] # outline

(***************************************************************************)
(* Calls of the endpoint and the credential, checked under Spec.           *)
(***************************************************************************)
\* a click on one of the buttons of the page
ButtonClick ==
    ClickGenerate \/ ClickExpand \/ ClickClear \/ ClickClearGuides \/ ClickRemove

\* generate_outline_pair or generate_scene_guide is running or has run in
\* this script run
ClientInvoked == pc \in {"stage1", "stage2", "scene"} \/ calls # <<>>

\* C23: generate_outline_pair and generate_scene_guide are invoked only
\* when an API credential is present; without a credential and with demo
\* mode off a run stops before any button is processed: nothing is called
\* and no session entry is written.
NoCallWithoutClient ==
    /\ [](ClientInvoked => api_key)
    /\ [][(ButtonClick /\ ~api_key /\ ~demo_mode) =>
             /\ shown' = "stopped"
             /\ pc' = "idle"
             /\ calls' = <<>>
             /\ UNCHANGED sessionVars]_vars

\* a session without a credential that holds an outline and a guide made in
\* demo mode, its run stopped after demo mode was switched off
NoCallWithoutClientWitness ==
    /\ ~api_key
    /\ ~demo_mode
    /\ shown = "stopped"
    /\ outline_result # None
    /\ scene_guides # <<>>
    /\ calls = <<>>
    /\ pc = "idle"

(***************************************************************************)
(* last_error, checked under Spec.                                         *)
(***************************************************************************)
\* a Generate-outline click that was processed comes to its end
GenerateEnds ==
    /\ ClickGenerate \/ Stage1Reply \/ Stage2Reply
    /\ pc' = "idle"
    /\ shown' # "stopped"

\* the message of the error the attempt ended in: str(ve) of the input
\* validation, or str(e) of the generation
AttemptError ==
    IF shown' = "invalid"
    THEN \E form \in Forms :
            /\ ~model_validate("OutlineRequest", request_data(form)).ok
            /\ last_error' =
                   Msg(model_validate("OutlineRequest", request_data(form)).exc.msg)
    ELSE /\ raised' # None
         /\ ~is_quota_error(raised')
         /\ last_error' = Msg(raised'.msg)

\* one step of the session, as far as last_error goes
LastErrorStep ==
    IF GenerateEnds
    THEN IF shown' \in {"stored", "fallback"}
         THEN last_error' = None
         ELSE shown' \in {"invalid", "failed"} /\ AttemptError
    ELSE IF ClickClear /\ shown' = "cleared"
    THEN last_error' = None
    ELSE UNCHANGED last_error

\* C24: last_error is written only at the end of a Generate-outline
\* attempt and by Clear results: an attempt that ends in an input
\* validation error or in a generation error that is not a quota error
\* sets it to that error's message, an attempt that stores a generated or a
\* fallback outline and a Clear results set it to None, and scene
\* expansions, whether they succeed or fail, Clear scene guides and Remove
\* leave it as it is; so a last_error that is not None is the error of the
\* latest attempt since the last Clear results.
LastErrorTracksLatestAttempt == [][LastErrorStep]_vars

\* a scene expansion failed while last_error holds the message of an
\* earlier invalid input
LastErrorTracksLatestAttemptWitness ==
    /\ shown = "guide_failed"
    /\ raised # None
    /\ last_error # None
    /\ last_error # Msg(raised.msg)
    /\ last_error.words[2] = "validation"

(***************************************************************************)
(* The outcome of a scene expansion, checked under Spec.                   *)
(***************************************************************************)
\* the demo guide for the scene being expanded
DemoGuideForScene ==
    demo_scene_guide(req, outline_result.m["outline"],
                     outline_result.m["detailed"], scene).value

\* scene_guides with the entry of the expanded scene set to g and every
\* other entry as it was
GuidesWith(g) ==
    [j \in DOMAIN scene_guides \cup {scene.m["scene_id"].v} |->
        IF j = scene.m["scene_id"].v THEN g ELSE scene_guides[j]]

\* the endpoint has answered the call of an expansion
SceneExpansionOutcome ==
    SceneReply =>
        /\ calls' = calls
        /\ Len(calls) = 1
        /\ IF raised' = None
           THEN /\ scene_guide_result(reply').ok
                /\ scene_guides' = GuidesWith(scene_guide_result(reply').value)
           ELSE IF MentionsQuota(raised'.msg)
           THEN scene_guides' = GuidesWith(DemoGuideForScene)
           ELSE UNCHANGED scene_guides

\* C25: when the expansion of scene k raises an error whose message
\* contains "insufficient_quota" or "exceeded your current quota",
\* scene_guides[k] becomes the demo guide for that scene, whatever was
\* stored for k, and no further call is made; when it raises any other
\* error scene_guides is unchanged; when it succeeds scene_guides[k] is the
\* guide that was generated; the other entries stay as they were.
SceneQuotaFallback == [][SceneExpansionOutcome]_vars

\* the expansion of S2 raised a quota error and its demo guide is stored
\* next to the generated guide of S1
SceneQuotaFallbackWitness ==
    /\ pc = "idle"
    /\ shown = "guide_fallback"
    /\ raised # None
    /\ MentionsQuota(raised.msg)
    /\ scene # None
    /\ scene.m["scene_id"].v = "S2"
    /\ "S1" \in DOMAIN scene_guides
    /\ scene_guides["S1"].m["scene_title"].v = "The Bell Tolls"
    /\ scene_guides["S2"] = DemoGuideForScene

====
